---- MODULE Spec2Model ----
(***************************************************************************)
(* Model of the visual embedding index of centrodemensajes:                *)
(*   scripts/generate-visual-embeddings.py  (the ingestion run)            *)
(*   scripts/visual-search.py               (one search invocation)        *)
(* The ingestion run is one process; every search invocation is a process  *)
(* of its own.  They share one thing: the file EMBEDDINGS_FILE.            *)
(*                                                                         *)
(* Strings that the code takes apart (file names) are sequences of         *)
(* one-character strings.  Embedding vectors are sequences of integers and *)
(* a cosine similarity is kept exactly, as the sign and the reduced square *)
(* of the quotient, so that equality and order of scores are those of the  *)
(* real numbers; NaN is a value of its own that compares false.            *)
(*                                                                         *)
(* Left out: the timestamp "created" of the database, the progress lines   *)
(* the generator prints, the image files it writes, and --stdin (lines     *)
(* 46-51 of visual-search.py read top_k alike on both branches).  The      *)
(* database file only ever comes from the generator, so every stored page  *)
(* has the dimension the one model gives and page numbers run 1..n.        *)
(***************************************************************************)
EXTENDS Integers, Sequences, FiniteSets, TLC

(* ------------------------------ bounds -------------------------------- *)
\* documents in the knowledge base at most
MaxPdfs == 2
\* pages a rasterized document has at most
MaxPages == 2
\* largest explicit top_k argument tried
MaxTopK == 2

\* the default of top_k (lines 48, 51)
DefaultTopK == 5

\* the file names the knowledge base may hold
PdfNames ==
  { <<"1", "-", "b", ".", "p", "d", "f">>,
    <<"2", "-", "b", ".", "p", "d", "f">>,
    <<"a", ".", "p", "d", "f">> }

\* What the embedding model returns, by image content: D = 2; two
\* orthogonal vectors of different length and a degenerate one.  An image
\* is modelled by its content, a number in 0..Len(EncodeTable)-1.
EncodeTable == << <<2, 0>>, <<0, 1>>, <<0, 0>> >>

ImageContents == 0..(Len(EncodeTable) - 1)

\* the search invocations of the full system, and of the query-only system
SearchProcs == {1}
QueryProcs == {1, 2}

(* --------------------------- string helpers --------------------------- *)
\* characters in ascending code-point order, for str comparison
Alphabet == <<"-", ".", "1", "2", "a", "b", "d", "f", "p">>

Ord(c) == CHOOSE i \in 1..Len(Alphabet) : Alphabet[i] = c

\* Python's s1 < s2 on str
RECURSIVE StrLess(_, _)
StrLess(s, t) ==
  IF t = <<>> THEN FALSE
  ELSE IF s = <<>> THEN TRUE
  ELSE IF Head(s) # Head(t) THEN Ord(Head(s)) < Ord(Head(t))
  ELSE StrLess(Tail(s), Tail(t))

DotPdf == <<".", "p", "d", "f">>

StartsWith(s, pre) ==
  Len(s) >= Len(pre) /\ SubSeq(s, 1, Len(pre)) = pre

\* s.replace(".pdf", "")
RECURSIVE RemovePdf(_)
RemovePdf(s) ==
  IF s = <<>> THEN <<>>
  ELSE IF StartsWith(s, DotPdf)
       THEN RemovePdf(SubSeq(s, Len(DotPdf) + 1, Len(s)))
       ELSE <<Head(s)>> \o RemovePdf(Tail(s))

HasDash(s) == \E i \in 1..Len(s) : s[i] = "-"

\* s.split("-", 1)[1]
AfterFirstDash(s) ==
  LET i == CHOOSE k \in 1..Len(s) :
             s[k] = "-" /\ \A j \in 1..(k - 1) : s[j] # "-"
  IN SubSeq(s, i + 1, Len(s))

\* line 71
CatalogName(pdf_name) ==
  IF HasDash(pdf_name) THEN RemovePdf(AfterFirstDash(pdf_name))
  ELSE RemovePdf(pdf_name)

\* lines 76, 94-95: the path of a page's image
ImagePath(pdf_name, page_num) ==
  [dir |-> RemovePdf(pdf_name), page |-> page_num]

\* The content of page page_num of a document, as convert_from_path renders
\* it.  The knowledge base is fixed: the pages of "1-b.pdf" encode to
\* (0,1), (0,0), (2,0), ...; those of "2-b.pdf" to (0,0), (2,0), (0,1), ...;
\* those of "a.pdf" to (2,0), (0,1), (0,0), ...
PageImage(pdf_name, page_num) ==
  (Ord(Head(pdf_name)) + page_num) % Len(EncodeTable)

\* model.encode(image): deterministic for the one model both scripts load
Encode(image) == EncodeTable[image + 1]

(* ------------------------------ the file ------------------------------ *)
Absent == [exists |-> FALSE]

\* The text of the file: the document whose serialization it is a prefix
\* of, cut after `written` catalogs; eof says the closing brackets are there.
FileText(doc, n, closed) ==
  [exists |-> TRUE, version |-> doc.version, model |-> doc.model,
   catalogs |-> SubSeq(doc.catalogs, 1, n), eof |-> closed]

\* the existence check left out
PathExists_Unchecked(f) == TRUE

\* os.path.exists
PathExists(f) == f.exists

\* json.load succeeds exactly on a complete document
WellFormed(f) == f.exists /\ f.eof

NoCatalog == [name |-> <<>>, source_file |-> <<>>, pages |-> <<>>]

(* ------------------------------ state --------------------------------- *)
VARIABLES
  dbFile,          \* content of EMBEDDINGS_FILE
  pdf_files,       \* generate: result of glob
  gpc,             \* generate: position in main
  idx,             \* generate: index of the document being processed
  npages,          \* generate: len(pages) of the current document
  catalog_data,    \* generate: the catalog being filled
  all_embeddings,  \* generate: the accumulator
  written,         \* generate: catalogs of the document json.dump has written
  log,             \* generate: what the run printed about each document
  spc,             \* search: position of each invocation in main
  argv,            \* search: the arguments of each invocation
  stdout,          \* search: the documents each invocation printed
  stderr           \* search: what each invocation left on the error channel

gvars == <<pdf_files, gpc, idx, npages, catalog_data,
           all_embeddings, written, log>>

svars == <<spc, argv, stdout, stderr>>

vars == <<dbFile, pdf_files, gpc, idx, npages, catalog_data,
          all_embeddings, written, log, spc, argv, stdout, stderr>>

\* every listing glob can return: distinct names, in any order
RECURSIVE Listings(_)
Listings(n) ==
  IF n = 0 THEN { <<>> }
  ELSE LET shorter == Listings(n - 1)
       IN shorter \cup
          { Append(l, f) : l \in { x \in shorter : Len(x) = n - 1 },
                           f \in PdfNames }

IsListing(l) == \A i, j \in 1..Len(l) : i # j => l[i] # l[j]

GlobResults == { l \in Listings(MaxPdfs) : IsListing(l) }

\* lines 62-67
EmptyDatabase == [version |-> "1.0", model |-> "clip-ViT-B-32", catalogs |-> <<>>]

GenInit ==
  /\ dbFile = Absent
  /\ pdf_files \in GlobResults
  /\ gpc = "loop"
  /\ idx = 1
  /\ npages = 0
  /\ catalog_data = NoCatalog
  /\ all_embeddings = EmptyDatabase
  /\ written = 0
  /\ log = <<>>

(* --------------------------- the ingestion run ------------------------ *)
\* the handler without its continue: the catalog filled so far is kept
SkipDocument_KeepsPartial ==
  /\ log' = Append(log, [event |-> "error", pdf |-> pdf_files[idx]])
  /\ all_embeddings' =
       [all_embeddings EXCEPT !.catalogs = Append(@, catalog_data)]
  /\ catalog_data' = NoCatalog
  /\ npages' = 0
  /\ idx' = idx + 1
  /\ gpc' = "loop"

\* lines 116-118: except Exception ... continue.  catalog_data is not read
\* again before line 79 assigns it anew; the model clears it.
SkipDocument ==
  /\ log' = Append(log, [event |-> "error", pdf |-> pdf_files[idx]])
  /\ catalog_data' = NoCatalog
  /\ npages' = 0
  /\ idx' = idx + 1
  /\ gpc' = "loop"
  /\ UNCHANGED <<all_embeddings>>

\* lines 69-89: the head of the loop and convert_from_path
ConvertPdf ==
  /\ gpc = "loop"
  /\ idx <= Len(pdf_files)
  /\ \/ \E n \in 0..MaxPages :
          /\ catalog_data' = [name |-> CatalogName(pdf_files[idx]),
                              source_file |-> pdf_files[idx],
                              pages |-> <<>>]
          /\ npages' = n
          /\ log' = Append(log, [event |-> "extracted", pdf |-> pdf_files[idx],
                                 n |-> n])
          /\ gpc' = "page"
          /\ UNCHANGED <<idx, all_embeddings>>
     \/ SkipDocument
  /\ UNCHANGED <<dbFile, pdf_files, written, svars>>

\* lines 92-114: one page; save or encode may raise
EmbedPage ==
  /\ gpc = "page"
  /\ Len(catalog_data.pages) < npages
  /\ \/ LET page_num == Len(catalog_data.pages) + 1
            page_data ==
              [page_number |-> page_num,
               image_path |-> ImagePath(pdf_files[idx], page_num),
               embedding |-> Encode(PageImage(pdf_files[idx], page_num))]
        IN /\ catalog_data' =
                [catalog_data EXCEPT !.pages = Append(@, page_data)]
           /\ UNCHANGED <<idx, npages, gpc, all_embeddings, log>>
     \/ SkipDocument
  /\ UNCHANGED <<dbFile, pdf_files, written, svars>>

\* lines 120-121
AppendCatalog ==
  /\ gpc = "page"
  /\ Len(catalog_data.pages) = npages
  /\ all_embeddings' =
       [all_embeddings EXCEPT !.catalogs = Append(@, catalog_data)]
  /\ log' = Append(log, [event |-> "completed", pdf |-> pdf_files[idx]])
  /\ catalog_data' = NoCatalog
  /\ npages' = 0
  /\ idx' = idx + 1
  /\ gpc' = "loop"
  /\ UNCHANGED <<dbFile, pdf_files, written, svars>>

\* line 125: open(EMBEDDINGS_FILE, 'w') truncates the file
SaveOpen ==
  /\ gpc = "loop"
  /\ idx > Len(pdf_files)
  /\ written' = 0
  /\ dbFile' = FileText(all_embeddings, 0, FALSE)
  /\ gpc' = "saving"
  /\ UNCHANGED <<pdf_files, idx, npages, catalog_data, all_embeddings, log, svars>>

\* line 126: json.dump writes the document piece by piece; the pieces of
\* the model are the catalogs
SaveWrite ==
  /\ gpc = "saving"
  /\ written < Len(all_embeddings.catalogs)
  /\ written' = written + 1
  /\ dbFile' = FileText(all_embeddings, written + 1, FALSE)
  /\ UNCHANGED <<pdf_files, gpc, idx, npages, catalog_data, all_embeddings, log,
                 svars>>

\* lines 125-126: the last piece and the end of the with block
SaveClose ==
  /\ gpc = "saving"
  /\ written = Len(all_embeddings.catalogs)
  /\ dbFile' = FileText(all_embeddings, written, TRUE)
  /\ gpc' = "done"
  /\ UNCHANGED <<pdf_files, idx, npages, catalog_data, all_embeddings,
                 written, log, svars>>

\* the process is interrupted (killed, or an error outside the try block)
\* where it stands
Interrupt ==
  /\ gpc \in {"loop", "page", "saving"}
  /\ gpc' = "killed"
  /\ UNCHANGED <<dbFile, pdf_files, idx, npages, catalog_data,
                 all_embeddings, written, log, svars>>

(* ------------------------------ scoring ------------------------------- *)
RECURSIVE Dot(_, _)
\* np.dot on two vectors of one length
Dot(a, b) ==
  IF a = <<>> THEN 0 ELSE Head(a) * Head(b) + Dot(Tail(a), Tail(b))

\* np.linalg.norm(a) squared
NormSq(a) == Dot(a, a)

RECURSIVE GCD(_, _)
GCD(m, n) == IF n = 0 THEN m ELSE GCD(n, m % n)

Sign(x) == IF x > 0 THEN 1 ELSE IF x < 0 THEN -1 ELSE 0

\* 0.0 / 0.0 in numpy: nan, with a warning and no exception
NaN == [nan |-> TRUE, sgn |-> 0, p |-> 0, q |-> 1]

\* lines 16-21.  The quotient dot / (|a| |b|) is kept as its sign and its
\* square p / q in lowest terms.
cosine_similarity(a, b) ==
  LET d == Dot(a, b)
      n == NormSq(a) * NormSq(b)
      g == GCD(d * d, n)
  IN IF n = 0 THEN NaN
     ELSE [nan |-> FALSE, sgn |-> Sign(d), p |-> (d * d) \div g, q |-> n \div g]

\* x < y on floats: false when either is nan
FloatLt(x, y) ==
  /\ ~x.nan
  /\ ~y.nan
  /\ x.sgn * x.p * y.q < y.sgn * y.p * x.q

(* ------------------------------ list.sort ----------------------------- *)
\* the comparison list.sort makes on the keys, line 92
KeyLt(x, y) == FloatLt(x.similarity, y.similarity)

Reverse(s) == [i \in 1..Len(s) |-> s[Len(s) + 1 - i]]

\* count_run of listsort: the end of the run that starts the list
RECURSIVE RunEnd(_, _, _)
RunEnd(s, k, descending) ==
  IF k > Len(s) THEN k - 1
  ELSE IF KeyLt(s[k], s[k - 1]) = descending THEN RunEnd(s, k + 1, descending)
  ELSE k - 1

\* binarysort of listsort: where the pivot goes in s[l..r-1]
RECURSIVE InsertionPoint(_, _, _, _)
InsertionPoint(s, pivot, l, r) ==
  IF l >= r THEN l
  ELSE LET m == l + ((r - l) \div 2)
       IN IF KeyLt(pivot, s[m]) THEN InsertionPoint(s, pivot, l, m)
          ELSE InsertionPoint(s, pivot, m + 1, r)

RECURSIVE BinarySort(_, _)
BinarySort(s, start) ==
  IF start > Len(s) THEN s
  ELSE LET pivot == s[start]
           l == InsertionPoint(s, pivot, 1, start)
       IN BinarySort(SubSeq(s, 1, l - 1) \o <<pivot>> \o SubSeq(s, l, start - 1)
                       \o SubSeq(s, start + 1, Len(s)),
                     start + 1)

\* listsort (CPython 3.11) on a list shorter than 64: the run that starts
\* the list, extended over the rest by binary insertion
SortAscending(s) ==
  IF Len(s) < 2 THEN s
  ELSE LET descending == KeyLt(s[2], s[1])
           n == RunEnd(s, 3, descending)
           run == IF descending THEN Reverse(SubSeq(s, 1, n)) ELSE SubSeq(s, 1, n)
       IN BinarySort(run \o SubSeq(s, n + 1, Len(s)), n + 1)

\* line 92: results.sort(key=similarity, reverse=True); listsort reverses
\* the list, sorts it ascending and reverses it again
SortBySimilarity(results) == Reverse(SortAscending(Reverse(results)))

\* the slice one too long
Slice_OneMore(results, top_k) ==
  SubSeq(results, 1, IF top_k + 1 < Len(results) THEN top_k + 1 ELSE Len(results))

\* line 95: results[:top_k], as Python slices (a negative top_k counts
\* from the end)
Slice(results, top_k) ==
  LET n == Len(results)
      stop == IF top_k >= 0 THEN (IF top_k < n THEN top_k ELSE n)
              ELSE (IF n + top_k > 0 THEN n + top_k ELSE 0)
  IN SubSeq(results, 1, stop)

(* ------------------------------ the search ---------------------------- *)
RECURSIVE Flatten(_)
Flatten(ss) == IF ss = <<>> THEN <<>> ELSE Head(ss) \o Flatten(Tail(ss))

\* lines 81-89, for one catalog
CatalogResults(catalog, query_embedding) ==
  [i \in 1..Len(catalog.pages) |->
     [catalog |-> catalog.name,
      page_number |-> catalog.pages[i].page_number,
      image_path |-> catalog.pages[i].image_path,
      similarity |-> cosine_similarity(query_embedding,
                                       catalog.pages[i].embedding),
      source_file |-> catalog.source_file]]

\* lines 78-89
Similarities(db, query_embedding) ==
  Flatten([c \in 1..Len(db.catalogs) |->
             CatalogResults(db.catalogs[c], query_embedding)])

\* np.dot raises ValueError on vectors of different length
ShapesAgree(db, query_embedding) ==
  \A c \in 1..Len(db.catalogs) :
    \A i \in 1..Len(db.catalogs[c].pages) :
      Len(db.catalogs[c].pages[i].embedding) = Len(query_embedding)

\* line 42
UsageError == [error |-> "Usage: visual-search.py <image_path_or_base64> [top_k]"]

\* line 57
NotFoundError ==
  [error |-> "Visual embeddings database not found. Run generate-visual-embeddings.py first."]

\* line 107: str(e) of the exception caught
ExceptionError(e) == [error |-> e]

\* lines 97-102
SuccessOutput(results, top_k) ==
  [success |-> TRUE,
   query_type |-> "image",
   total_pages_searched |-> Len(results),
   results |-> Slice(SortBySimilarity(results), top_k)]

\* the command lines: no argument; an image; an image and a top_k
NoTopK == [given |-> FALSE, int |-> FALSE, val |-> 0]

TopKArgs ==
  {NoTopK, [given |-> TRUE, int |-> FALSE, val |-> 0]}
    \cup { [given |-> TRUE, int |-> TRUE, val |-> k] : k \in (-1)..MaxTopK }

NoImage == [given |-> FALSE, readable |-> FALSE, content |-> 0]

ImageArgs ==
  { [given |-> TRUE, readable |-> FALSE, content |-> 0] }
    \cup { [given |-> TRUE, readable |-> TRUE, content |-> c] : c \in ImageContents }

CommandLines ==
  { [image |-> NoImage, top_k |-> NoTopK] }
    \cup { [image |-> i, top_k |-> k] : i \in ImageArgs, k \in TopKArgs }

\* lines 48, 51
TopK(args) == IF args.top_k.given THEN args.top_k.val ELSE DefaultTopK

\* lines 60-108: the document the try block prints
SearchOutput(file, args) ==
  IF ~args.image.readable THEN ExceptionError("UnidentifiedImageError")
  ELSE IF ~PathExists(file) THEN ExceptionError("FileNotFoundError")
  ELSE IF ~WellFormed(file) THEN ExceptionError("JSONDecodeError")
  ELSE IF ~ShapesAgree(file, Encode(args.image.content))
       THEN ExceptionError("ValueError")
  ELSE SuccessOutput(Similarities(file, Encode(args.image.content)), TopK(args))

\* lines 41-58: the arguments and the existence check
SearchStart(p) ==
  /\ spc[p] = "idle"
  /\ \E args \in CommandLines :
       /\ argv' = [argv EXCEPT ![p] = args]
       /\ IF ~args.image.given
          THEN /\ stdout' = [stdout EXCEPT ![p] = <<UsageError>>]
               /\ spc' = [spc EXCEPT ![p] = "exit1"]
               /\ UNCHANGED stderr
          ELSE IF args.top_k.given /\ ~args.top_k.int
          THEN \* int() raises ValueError outside the try block
               /\ stderr' = [stderr EXCEPT ![p] = <<"Traceback: ValueError">>]
               /\ spc' = [spc EXCEPT ![p] = "exit1"]
               /\ UNCHANGED stdout
          ELSE IF ~PathExists(dbFile)
          THEN /\ stdout' = [stdout EXCEPT ![p] = <<NotFoundError>>]
               /\ spc' = [spc EXCEPT ![p] = "exit1"]
               /\ UNCHANGED stderr
          ELSE /\ spc' = [spc EXCEPT ![p] = "try"]
               /\ UNCHANGED <<stdout, stderr>>
  /\ UNCHANGED <<dbFile, gvars>>

\* a search that sorts the loaded catalogs in place and saves them back
SearchRun_WritesBack(p) ==
  /\ spc[p] = "try"
  /\ LET output == SearchOutput(dbFile, argv[p])
     IN /\ stdout' = [stdout EXCEPT ![p] = <<output>>]
        /\ spc' = [spc EXCEPT ![p] =
                     IF "error" \in DOMAIN output THEN "exit1" ELSE "exit0"]
  /\ dbFile' = IF WellFormed(dbFile)
               THEN [dbFile EXCEPT !.catalogs = Reverse(@)]
               ELSE dbFile
  /\ UNCHANGED <<gvars, argv, stderr>>

\* lines 60-108: load the image, load the database, rank, print
SearchRun(p) ==
  /\ spc[p] = "try"
  /\ LET output == SearchOutput(dbFile, argv[p])
     IN /\ stdout' = [stdout EXCEPT ![p] = <<output>>]
        /\ spc' = [spc EXCEPT ![p] =
                     IF "error" \in DOMAIN output THEN "exit1" ELSE "exit0"]
  /\ UNCHANGED <<dbFile, gvars, argv, stderr>>

SearchInit ==
  /\ spc = [p \in QueryProcs |-> "idle"]
  /\ argv = [p \in QueryProcs |-> [image |-> NoImage, top_k |-> NoTopK]]
  /\ stdout = [p \in QueryProcs |-> <<>>]
  /\ stderr = [p \in QueryProcs |-> <<>>]

(* --------------------------- specifications --------------------------- *)
Init == GenInit /\ SearchInit

Search == \E p \in SearchProcs : SearchStart(p) \/ SearchRun(p)

\* one ingestion run and one search invocation, in any interleaving
Next ==
  \/ ConvertPdf
  \/ EmbedPage
  \/ AppendCatalog
  \/ SaveOpen
  \/ SaveWrite
  \/ SaveClose
  \/ Interrupt
  \/ Search

Spec == Init /\ [][Next]_vars

\* lines 105-110, for every page of a document that rasterized to n pages
CatalogOf(pdf_name, n) ==
  [name |-> CatalogName(pdf_name),
   source_file |-> pdf_name,
   pages |-> [i \in 1..n |->
                [page_number |-> i,
                 image_path |-> ImagePath(pdf_name, i),
                 embedding |-> Encode(PageImage(pdf_name, i))]]]

\* The states in which an ingestion run that skipped no document has ended:
\* what ConvertPdf, EmbedPage, AppendCatalog and the save leave behind when
\* document i has counts[i] pages, one at least.
GenDone ==
  \E l \in GlobResults :
    \E counts \in [1..Len(l) -> 1..MaxPages] :
      LET cats == [i \in 1..Len(l) |-> CatalogOf(l[i], counts[i])]
          doc == [EmptyDatabase EXCEPT !.catalogs = cats]
      IN /\ pdf_files = l
         /\ all_embeddings = doc
         /\ dbFile = FileText(doc, Len(l), TRUE)
         /\ gpc = "done"
         /\ idx = Len(l) + 1
         /\ npages = 0
         /\ catalog_data = NoCatalog
         /\ written = Len(l)
         /\ log = Flatten([i \in 1..Len(l) |->
                     << [event |-> "extracted", pdf |-> l[i], n |-> counts[i]],
                        [event |-> "completed", pdf |-> l[i]] >>])

\* the database is at rest (not built yet, or built) and two invocations run
QueryInit == (GenInit \/ GenDone) /\ SearchInit

QueryNext == \E p \in QueryProcs : SearchStart(p) \/ SearchRun(p)

SpecQueries == QueryInit /\ [][QueryNext]_vars

(* ------------------------------ claims -------------------------------- *)
Exited(p) == spc[p] \in {"exit0", "exit1"}

Succeeded(p) ==
  /\ Exited(p)
  /\ Len(stdout[p]) = 1
  /\ "success" \in DOMAIN stdout[p][1]

Matches(p) == stdout[p][1].results

TotalPages(file) ==
  Len(Flatten([c \in 1..Len(file.catalogs) |-> file.catalogs[c].pages]))

Min(a, b) == IF a < b THEN a ELSE b

\* the stored vector a match was scored against
EmbeddingOf(file, match) ==
  LET c == CHOOSE k \in 1..Len(file.catalogs) :
             file.catalogs[k].source_file = match.source_file
  IN file.catalogs[c].pages[match.page_number].embedding

QueryVector(p) == Encode(argv[p].image.content)

ZeroNorm(p, match) ==
  NormSq(QueryVector(p)) = 0 \/ NormSq(EmbeddingOf(dbFile, match)) = 0

\* x >= y with a degenerate score read as minus infinity, as the spec defines it
ScoreGeq(x, y) == y.nan \/ (~x.nan /\ ~FloatLt(x, y))

\* (name1, page1) <= (name2, page2)
KeyLeq(m1, m2) ==
  \/ StrLess(m1.catalog, m2.catalog)
  \/ m1.catalog = m2.catalog /\ m1.page_number <= m2.page_number

\* C1: in a successful search, two returned matches of exactly equal
\* (finite) score appear in ascending order of (catalog name, page_number),
\* whatever the order of the catalogs in the database.
C1_TieBreakByNameAndPage ==
  \A p \in QueryProcs :
    Succeeded(p) =>
      \A i, j \in 1..Len(Matches(p)) :
        (i < j /\ ~Matches(p)[i].similarity.nan
               /\ Matches(p)[i].similarity = Matches(p)[j].similarity)
          => KeyLeq(Matches(p)[i], Matches(p)[j])

\* C2: at every point of an ingestion run the file is absent or a complete
\* database, never a partially written document, and no search reads a
\* partial document.
C2_FileIsNeverPartial ==
  /\ dbFile = Absent \/ WellFormed(dbFile)
  /\ \A p \in QueryProcs : stdout[p] # <<ExceptionError("JSONDecodeError")>>

\* C3: after an ingestion run, no two catalogs of the database have the
\* same name.
C3_CatalogNamesUnique ==
  gpc = "done" =>
    \A i, j \in 1..Len(dbFile.catalogs) :
      i # j => dbFile.catalogs[i].name # dbFile.catalogs[j].name

MinusInfinity == [nan |-> FALSE, sgn |-> -1, p |-> 1, q |-> 0]

\* C4: a match whose stored vector or whose query vector has zero norm has
\* score minus infinity, and no such match is placed before a match with a
\* finite score.
C4_DegenerateRankedLast ==
  \A p \in QueryProcs :
    Succeeded(p) =>
      /\ \A i \in 1..Len(Matches(p)) :
           ZeroNorm(p, Matches(p)[i]) => Matches(p)[i].similarity = MinusInfinity
      /\ \A i, j \in 1..Len(Matches(p)) :
           (i < j /\ ZeroNorm(p, Matches(p)[i])) => ZeroNorm(p, Matches(p)[j])

\* the arguments the claim calls invalid: no image, a top_k that is not a
\* positive integer, an image that cannot be read
InvalidQuery(args) ==
  \/ ~args.image.given
  \/ ~args.image.readable
  \/ args.top_k.given /\ (~args.top_k.int \/ args.top_k.val <= 0)

\* C5: an invocation whose query is invalid prints exactly one document, and
\* that document carries an error field; nothing goes to the error channel.
C5_InvalidQueryYieldsErrorDocument ==
  \A p \in QueryProcs :
    (Exited(p) /\ InvalidQuery(argv[p])) =>
      /\ Len(stdout[p]) = 1
      /\ "error" \in DOMAIN stdout[p][1]
      /\ stderr[p] = <<>>

\* C6: a successful search with a positive top_k returns exactly
\* min(top_k, N) matches, N the number of pages in the database, and reports
\* N pages searched.
C6_ReturnsMinTopKTotal ==
  \A p \in QueryProcs :
    (Succeeded(p) /\ TopK(argv[p]) > 0) =>
      /\ Len(Matches(p)) = Min(TopK(argv[p]), TotalPages(dbFile))
      /\ stdout[p][1].total_pages_searched = TotalPages(dbFile)

\* a search returned every page of a database of two pages or more, top_k
\* being larger
C6_Witness ==
  \E p \in QueryProcs :
    /\ Succeeded(p)
    /\ TotalPages(dbFile) >= 2
    /\ TopK(argv[p]) > TotalPages(dbFile)
    /\ Len(Matches(p)) = TotalPages(dbFile)

IsReturned(p, r) ==
  \E i \in 1..Len(Matches(p)) :
    /\ Matches(p)[i].source_file = r.source_file
    /\ Matches(p)[i].page_number = r.page_number

\* C7: the matches of a successful search with a positive top_k are in
\* non-increasing score order, and each has a score at least that of every
\* page of the database that was not returned.
C7_TopKHighestDescending ==
  \A p \in QueryProcs :
    (Succeeded(p) /\ TopK(argv[p]) > 0) =>
      LET all == Similarities(dbFile, QueryVector(p))
      IN /\ \A i, j \in 1..Len(Matches(p)) :
              i < j => ScoreGeq(Matches(p)[i].similarity, Matches(p)[j].similarity)
         /\ \A i \in 1..Len(Matches(p)) :
              \A k \in 1..Len(all) :
                ~IsReturned(p, all[k]) =>
                  ScoreGeq(Matches(p)[i].similarity, all[k].similarity)

Logged(event, pdf_name) ==
  \E k \in 1..Len(log) : log[k].event = event /\ log[k].pdf = pdf_name

\* the documents of the listing that raised no error, in processing order
RECURSIVE Succeeding(_)
Succeeding(l) ==
  IF l = <<>> THEN <<>>
  ELSE (IF Logged("error", Head(l)) THEN <<>> ELSE <<Head(l)>>)
         \o Succeeding(Tail(l))

\* C8: a document that fails at rasterization or at any page contributes no
\* catalog; every catalog kept holds all the pages its document rasterized
\* to; a failure does not end the run; and when the run reaches the save
\* step every document has been processed and the database holds exactly
\* the catalogs of the documents that succeeded, in processing order, which
\* is what the finished run has written.
C8_FailedDocumentIsSkipped ==
  /\ \A c \in 1..Len(all_embeddings.catalogs) :
       LET cat == all_embeddings.catalogs[c]
       IN /\ ~Logged("error", cat.source_file)
          /\ \E k \in 1..Len(log) :
               /\ log[k].event = "extracted"
               /\ log[k].pdf = cat.source_file
               /\ log[k].n = Len(cat.pages)
          /\ \A i \in 1..Len(cat.pages) : cat.pages[i].page_number = i
  /\ gpc \in {"loop", "page", "saving", "done", "killed"}
  /\ (gpc \in {"loop", "page", "saving"}) =>
       ENABLED (ConvertPdf \/ EmbedPage \/ AppendCatalog \/ SaveOpen
                  \/ SaveWrite \/ SaveClose)
  /\ (gpc \in {"saving", "done"}) =>
       /\ \A i \in 1..Len(pdf_files) :
            Logged("error", pdf_files[i]) \/ Logged("completed", pdf_files[i])
       /\ [c \in 1..Len(all_embeddings.catalogs) |->
             all_embeddings.catalogs[c].source_file] = Succeeding(pdf_files)
  /\ gpc = "done" =>
       /\ WellFormed(dbFile)
       /\ dbFile.catalogs = all_embeddings.catalogs

\* the first of two documents failed at a page after rasterizing, the second
\* succeeded with pages, and the finished run wrote the second alone
C8_Witness ==
  /\ gpc = "done"
  /\ Len(pdf_files) = 2
  /\ Logged("extracted", pdf_files[1])
  /\ Logged("error", pdf_files[1])
  /\ Len(dbFile.catalogs) = 1
  /\ dbFile.catalogs[1].source_file = pdf_files[2]
  /\ Len(dbFile.catalogs[1].pages) >= 1

\* the command line got past the argument handling of lines 41-51
Parsed(args) == args.image.given /\ (args.top_k.given => args.top_k.int)

EmptySuccess ==
  [success |-> TRUE, query_type |-> "image", total_pages_searched |-> 0,
   results |-> <<>>]

\* C9: an invocation that finds the file missing prints the error that
\* tells the caller to run the generator, and prints it in no other case; an
\* invocation with a readable image that loads a complete database of zero
\* pages prints a success document with no matches and 0 pages searched.
C9_MissingVersusEmpty ==
  [][\A p \in QueryProcs :
       /\ (spc[p] = "idle" /\ spc'[p] # "idle" /\ Parsed(argv'[p])) =>
            IF dbFile = Absent
            THEN stdout'[p] = <<NotFoundError>> /\ spc'[p] = "exit1"
            ELSE stdout'[p] # <<NotFoundError>>
       /\ (spc[p] = "try" /\ spc'[p] # "try") =>
            /\ stdout'[p] # <<NotFoundError>>
            /\ (argv[p].image.readable /\ WellFormed(dbFile)
                  /\ TotalPages(dbFile) = 0) =>
                 stdout'[p] = <<EmptySuccess>> /\ spc'[p] = "exit0"]_vars

\* a search succeeded with no matches against a database that holds a
\* catalog, of no pages
C9_Witness ==
  \E p \in QueryProcs :
    /\ Succeeded(p)
    /\ stdout[p][1] = EmptySuccess
    /\ WellFormed(dbFile)
    /\ Len(dbFile.catalogs) >= 1

SameAnswers ==
  \A p, r \in QueryProcs :
    (Exited(p) /\ Exited(r) /\ argv[p] = argv[r]) =>
      stdout[p] = stdout[r] /\ stderr[p] = stderr[r] /\ spc[p] = spc[r]

\* C10: no step of a search changes the file or anything the ingestion run
\* owns, and, the database being unchanged, two invocations with the same
\* arguments print the same output however their steps interleave.
C10_SearchIsReadOnly ==
  [][dbFile' = dbFile /\ gvars' = gvars /\ SameAnswers']_vars

\* two invocations with the same arguments both ranked a database of two
\* pages or more, successfully
C10_Witness ==
  /\ Succeeded(1)
  /\ Succeeded(2)
  /\ argv[1] = argv[2]
  /\ Len(Matches(1)) >= 2
  /\ spc[1] = "exit0"
====
